---- MODULE Spec2Model ----
(***************************************************************************)
(* Model of download-rds-logs.py (_main): the listing call with            *)
(* exponential backoff, the per-file filter / size skip decision and the   *)
(* chunked download loop with truncation shrink.                           *)
(*                                                                         *)
(* The script only runs under Python 2 semantics (a text LogFileData is    *)
(* written to a file opened "wb"), which is what is modelled here.         *)
(* Log data is a sequence of tokens; a file's byte size is the length of   *)
(* that sequence.  A log file name is a pair <<directory, basename>>.      *)
(***************************************************************************)
EXTENDS Integers, Sequences, FiniteSets, TLC

\* ------------------------------------------------------------------ bounds
MaxBackoff == 5      \* args.backoff ranges over -1 .. MaxBackoff
MaxLinesK  == 4      \* args.lines ranges over the multiples of 5 up to 5 * MaxLinesK, and 100
MaxChunks  == 2      \* responses that advance the session, per file
MaxFailed  == 3      \* the count of failed chunk calls of a session stops here

\* ------------------------------------------------------- values and inputs
Sentinel  == "[Your log message was truncated]\n"
NoPattern == "<None>"          \* args.logfile_match is None
NoField   == "<missing>"       \* key not present in the response dict

LogNames  == { <<"error", "a">>, <<"", "b">> }
BaseNames == { n[2] : n \in LogNames }
Patterns  == { NoPattern, "error" }
Markers   == { "1", "2" }
DataValues == { <<Sentinel, "y">>, <<"x", Sentinel>> }
Sizes     == { 1, 2 }

InitialLines == { 5 * k : k \in 0..MaxLinesK } \cup { 100 }

Descriptors == [ LogFileName : LogNames, Size : Sizes ]

\* what describe_db_log_files can return: no file, one file, or two files of different names
OneFile  == { << d >> : d \in Descriptors }
TwoFiles == { l \in { << d, e >> : d \in Descriptors, e \in Descriptors } :
                 l[1].LogFileName # l[2].LogFileName }

\* a response of download_db_log_file_portion
\* the LogFileData entry of a response: key missing, None, or a text
DataFields == { [ kind |-> "missing", text |-> <<>> ], [ kind |-> "None", text |-> <<>> ] }
                  \cup { [ kind |-> "text", text |-> d ] : d \in DataValues }

Results == [ LogFileData : DataFields,
             Marker : Markers \cup { NoField },
             AdditionalDataPending : { "True", "False", NoField } ]

Absent  == [ exists |-> FALSE, data |-> <<>> ]
File(d) == [ exists |-> TRUE, data |-> d ]


\* ------------------------------------------------------- library functions
\* os.path.basename
basename(n) == n[2]

\* re.search(pattern, name) for a pattern that is a literal word
re_search(p, n) == p \in { n[1], n[2] }

\* str.endswith
endswith(text, suffix) == Len(text) > 0 /\ text[Len(text)] = suffix

\* the arguments of math.pow swapped: math.pow(k, 2)
pow2_swapped(k) == k * k

\* math.pow(2, k)
RECURSIVE pow2(_)
pow2(k) == IF k <= 0 THEN 1 ELSE 2 * pow2(k - 1)

\* f.write that puts the text in front of the file's content
write_front(files, dest, text) == [ files EXCEPT ![dest] = File(text \o files[dest].data) ]

\* os.path.exists / os.stat(...).st_size / os.remove / open(..., "wb") / f.write
exists(files, dest)   == files[dest].exists
st_size(files, dest)  == Len(files[dest].data)
os_remove(files, dest) == [ files EXCEPT ![dest] = Absent ]
open_wb(files, dest)  == [ files EXCEPT ![dest] = File(<<>>) ]
write(files, dest, text) == [ files EXCEPT ![dest] = File(files[dest].data \o text) ]

\* ------------------------------------------------------------------- state
VARIABLES
    backoff,        \* args.backoff
    args_lines,     \* args.lines
    logfile_match,  \* args.logfile_match
    remote,         \* the descriptors the service lists for the instance
    pc,             \* "list", "file", "chunk", "done", "crashed"
    sleepcount,
    response,       \* [bound, files]: the local name 'response' and its 'DescribeDBLogFiles'
    idx,            \* position of the for loop in response['DescribeDBLogFiles']
    lines,
    chunk,
    more_data,
    marker,
    fs,             \* local files of the output directory, by base name
    errors,         \* logging.error messages, in order
    \* observations of the run, not read by the program
    event,          \* the last step: its kind, the time.sleep it took, the request it sent
    accepted,       \* data of the responses of this session that were kept, in order
    discards,       \* truncated responses discarded in this session
    removed,        \* positions in the listing whose local file was removed
    failed          \* failed chunk calls of this session, counted up to MaxFailed

config == << backoff, args_lines, logfile_match, remote >>
prog   == << pc, sleepcount, response, idx, lines, chunk, more_data, marker, fs, errors >>
hist   == << event, accepted, discards, removed, failed >>
vars   == << config, prog, hist >>

FailEvents    == { "list_fail", "chunk_fail" }
RequestEvents == { "chunk_fail", "key_error", "shrink", "write", "nodata", "del_error" }

\* the local name 'result' before any response
NoResult == [ LogFileData |-> [ kind |-> "missing", text |-> <<>> ],
              Marker |-> NoField, AdditionalDataPending |-> NoField ]

\* a step that calls neither the service nor time.sleep
Ev(kind) ==
    [ kind |-> kind, sleep |-> 0, fails |-> 0, Marker |-> "", NumberOfLines |-> 0, result |-> NoResult ]

\* consecutive failed calls that end with the last step
prior == IF event.kind \in FailEvents THEN event.fails ELSE 0

\* describe_db_log_files was called; t is the time.sleep that followed (0: none)
ListEv(kind, t, n) ==
    [ kind |-> kind, sleep |-> t, fails |-> n, Marker |-> "", NumberOfLines |-> 0, result |-> NoResult ]

\* download_db_log_file_portion was called with the current marker and lines (lines 128-133)
ChunkEv(kind, t, n, r) ==
    [ kind |-> kind, sleep |-> t, fails |-> n, Marker |-> marker, NumberOfLines |-> lines, result |-> r ]

OldFiles == { Absent, File(<<"old">>) }

Start ==
    /\ pc = "list"
    /\ sleepcount = 0
    /\ response = [ bound |-> FALSE, files |-> <<>> ]
    /\ idx = 0
    /\ lines = 0
    /\ chunk = 0
    /\ more_data = FALSE
    /\ marker = ""
    /\ errors = <<>>
    /\ event = Ev("start")
    /\ accepted = <<>>
    /\ discards = 0
    /\ removed = {}
    /\ failed = 0

SingleFile == { <<>> } \cup { l \in OneFile : l[1].LogFileName = <<"error", "a">> }

\* one listed file, every retry ceiling
InitRetry ==
    /\ backoff \in -1..MaxBackoff
    /\ args_lines = 5
    /\ logfile_match = NoPattern
    /\ remote \in SingleFile
    /\ fs \in { f \in [ BaseNames -> OldFiles ] : ~ f["b"].exists }

\* one listed file, every initial line count
InitLines ==
    /\ backoff = 2
    /\ args_lines \in InitialLines
    /\ logfile_match = NoPattern
    /\ remote \in SingleFile
    /\ fs \in { f \in [ BaseNames -> OldFiles ] : ~ f["b"].exists }

\* two listed files
InitRun ==
    /\ backoff = 1
    /\ args_lines = 5
    /\ logfile_match \in Patterns
    /\ remote \in TwoFiles
    /\ fs \in [ BaseNames -> OldFiles ]

\* what a given-up session leaves behind: the file as opened, or with the first chunk
LeftFiles == { File(<<>>), File(<< Sentinel, "y" >>) }

\* a later run, started on a file that an earlier run gave up
InitLater ==
    /\ backoff = 1
    /\ args_lines = 5
    /\ logfile_match = NoPattern
    /\ remote \in SingleFile
    /\ fs \in { f \in [ BaseNames -> OldFiles \cup LeftFiles ] : f["a"] \in LeftFiles /\ ~ f["b"].exists }

Init == Start /\ (InitRetry \/ InitLines \/ InitRun \/ InitLater)

\* ------------------------------------------------------------ listing call
\* lines 84-95, the except branch
DescribeFails ==
    /\ pc = "list"
    /\ sleepcount < backoff
    /\ event' = ListEv("list_fail", pow2(sleepcount), prior + 1)
    /\ sleepcount' = sleepcount + 1
    /\ UNCHANGED << config, pc, response, idx, lines, chunk, more_data, marker, fs, errors,
                    accepted, discards, removed, failed >>

\* lines 84-89 and 96: the call returns, break, sleepcount < args.backoff
DescribeOk ==
    /\ pc = "list"
    /\ sleepcount < backoff
    /\ response' = [ bound |-> TRUE, files |-> remote ]
    /\ pc' = "file"
    /\ idx' = 1
    /\ event' = ListEv("list_ok", 0, prior)
    /\ UNCHANGED << config, sleepcount, lines, chunk, more_data, marker, fs, errors,
                    accepted, discards, removed, failed >>

\* the give-up branch without its return: line 99 then reads the unassigned 'response'
DescribeGiveUp_noreturn ==
    /\ pc = "list"
    /\ ~ (sleepcount < backoff)
    /\ errors' = IF sleepcount = backoff
                 THEN Append(errors, [ kind |-> "describe", file |-> 0 ])
                 ELSE errors
    /\ pc' = "crashed"
    /\ event' = IF sleepcount = backoff THEN ListEv("list_exhausted", 0, prior) ELSE Ev("crash")
    /\ UNCHANGED << config, sleepcount, response, idx, lines, chunk, more_data, marker, fs,
                    accepted, discards, removed, failed >>

\* lines 84, 96-99: the while condition is false
DescribeGiveUp ==
    /\ pc = "list"
    /\ ~ (sleepcount < backoff)
    /\ \/ /\ sleepcount = backoff
          /\ errors' = Append(errors, [ kind |-> "describe", file |-> 0 ])
          /\ pc' = "done"
          /\ event' = ListEv("list_exhausted", 0, prior)
       \/ /\ sleepcount # backoff      \* line 99 reads the unassigned name 'response'
          /\ errors' = errors
          /\ pc' = "crashed"
          /\ event' = Ev("crash")
    /\ UNCHANGED << config, sleepcount, response, idx, lines, chunk, more_data, marker, fs,
                    accepted, discards, removed, failed >>

\* ------------------------------------------------- per-file filter and skip
log         == response.files[idx]
logfilename == log.LogFileName
destination == basename(logfilename)

InLoop == pc = "file" /\ idx <= Len(response.files)

\* line 104
filtered_out == logfile_match # NoPattern /\ ~ re_search(logfile_match, logfilename)

\* the size comparison inverted
same_size_inverted == exists(fs, destination) /\ st_size(fs, destination) # log.Size

\* lines 110-112
same_size == exists(fs, destination) /\ st_size(fs, destination) = log.Size

\* lines 100-106
SkipUnmatched ==
    /\ InLoop
    /\ filtered_out
    /\ lines' = args_lines
    /\ idx' = idx + 1
    /\ event' = Ev("filter_skip")
    /\ UNCHANGED << config, pc, sleepcount, response, chunk, more_data, marker, fs, errors,
                    accepted, discards, removed, failed >>

\* lines 100-114
SkipExisting ==
    /\ InLoop
    /\ ~ filtered_out
    /\ same_size
    /\ lines' = args_lines
    /\ idx' = idx + 1
    /\ event' = Ev("size_skip")
    /\ UNCHANGED << config, pc, sleepcount, response, chunk, more_data, marker, fs, errors,
                    accepted, discards, removed, failed >>

\* a new session that keeps the line count the run has reached (no line 102)
OpenSession_keep_lines(files) ==
    /\ fs' = open_wb(files, destination)
    /\ lines' = lines
    /\ chunk' = 0
    /\ more_data' = TRUE
    /\ marker' = "0"
    /\ sleepcount' = 0
    /\ pc' = "chunk"
    /\ accepted' = <<>>
    /\ discards' = 0
    /\ failed' = 0
    /\ UNCHANGED << config, response, idx, errors >>

\* a new session that keeps the failure counter of whatever ran before (no line 124)
OpenSession_stale(files) ==
    /\ fs' = open_wb(files, destination)
    /\ lines' = args_lines
    /\ chunk' = 0
    /\ more_data' = TRUE
    /\ marker' = "0"
    /\ sleepcount' = sleepcount
    /\ pc' = "chunk"
    /\ accepted' = <<>>
    /\ discards' = 0
    /\ failed' = 0
    /\ UNCHANGED << config, response, idx, errors >>

\* lines 102, 120-124: the state of a new download session
OpenSession(files) ==
    /\ fs' = open_wb(files, destination)
    /\ lines' = args_lines
    /\ chunk' = 0
    /\ more_data' = TRUE
    /\ marker' = "0"
    /\ sleepcount' = 0
    /\ pc' = "chunk"
    /\ accepted' = <<>>
    /\ discards' = 0
    /\ failed' = 0
    /\ UNCHANGED << config, response, idx, errors >>

\* lines 100-110, 120-124: no local file yet
BeginDownload ==
    /\ InLoop
    /\ ~ filtered_out
    /\ ~ exists(fs, destination)
    /\ OpenSession(fs)
    /\ event' = Ev("open")
    /\ removed' = removed

\* a resume: the local file is kept and opened for appending
Redownload_resume ==
    /\ pc = "file" /\ idx <= Len(response.files)
    /\ ~ (logfile_match # NoPattern /\ ~ re_search(logfile_match, logfilename))
    /\ exists(fs, destination)
    /\ st_size(fs, destination) # log.Size
    /\ lines' = args_lines
    /\ chunk' = 0
    /\ more_data' = TRUE
    /\ marker' = "0"
    /\ sleepcount' = 0
    /\ pc' = "chunk"
    /\ accepted' = <<>>
    /\ discards' = 0
    /\ failed' = 0
    /\ event' = Ev("redownload")
    /\ UNCHANGED << config, response, idx, errors, fs, removed >>

\* lines 100-124: a local file of another size
Redownload ==
    /\ InLoop
    /\ ~ filtered_out
    /\ exists(fs, destination)
    /\ ~ same_size
    /\ OpenSession(os_remove(fs, destination))
    /\ event' = Ev("redownload")
    /\ removed' = removed \cup { idx }

\* line 99: the listing is used up, _main returns
ForDone ==
    /\ pc = "file"
    /\ idx > Len(response.files)
    /\ pc' = "done"
    /\ event' = Ev("done")
    /\ UNCHANGED << config, sleepcount, response, idx, lines, chunk, more_data, marker, fs,
                    errors, accepted, discards, removed, failed >>

\* -------------------------------------------------------------- chunk loop
\* the loop condition with <= for <
InChunkLoop_le == pc = "chunk" /\ more_data /\ sleepcount <= backoff

\* line 125
InChunkLoop == pc = "chunk" /\ more_data /\ sleepcount < backoff

\* line 141 indexes both keys
HasKeys(r) == r.AdditionalDataPending # NoField /\ r.Marker # NoField

\* line 143
has_data(r) == r.LogFileData.kind = "text"

\* the floor test with >= for >
above_floor_ge == lines * 10 >= args_lines

\* line 146 (for integers, lines > args.lines * 0.1 iff 10 * lines > args.lines)
above_floor == lines * 10 > args_lines

\* lines 143-146
must_shrink(r) ==
    /\ has_data(r)
    /\ endswith(r.LogFileData.text, Sentinel)
    /\ above_floor

\* the service ends a file within MaxChunks chunks
WithinChunks(r) == r.AdditionalDataPending = "True" => chunk + 1 < MaxChunks

\* the session advances without taking the returned marker (no line 157)
Advance_keep_marker(r) ==
    /\ more_data' = (r.AdditionalDataPending = "True")
    /\ marker' = marker
    /\ chunk' = chunk + 1

\* lines 155-158
Advance(r) ==
    /\ more_data' = (r.AdditionalDataPending = "True")
    /\ marker' = IF r.Marker # NoField THEN r.Marker ELSE marker
    /\ chunk' = chunk + 1

\* a decrement of one line instead of ten
shrunk_by_one == lines - 1

\* line 147
shrunk == lines - 10

\* the except branch that does not sleep when the failure is the last one allowed
PortionFails_no_last_sleep ==
    /\ pc = "chunk" /\ more_data /\ sleepcount < backoff
    /\ event' = ChunkEv("chunk_fail",
                        IF sleepcount + 1 = backoff THEN 0 ELSE pow2(sleepcount),
                        prior + 1, NoResult)
    /\ sleepcount' = sleepcount + 1
    /\ failed' = IF failed < MaxFailed THEN failed + 1 ELSE failed
    /\ UNCHANGED << config, pc, response, idx, lines, chunk, more_data, marker, fs, errors,
                    accepted, discards, removed >>

\* the except branch that also counts the failed call as a chunk
PortionFails_counted ==
    /\ pc = "chunk" /\ more_data /\ sleepcount < backoff
    /\ event' = ChunkEv("chunk_fail", pow2(sleepcount), prior + 1, NoResult)
    /\ sleepcount' = sleepcount + 1
    /\ failed' = IF failed < MaxFailed THEN failed + 1 ELSE failed
    /\ chunk' = chunk + 1
    /\ UNCHANGED << config, pc, response, idx, lines, more_data, marker, fs, errors,
                    accepted, discards, removed >>

\* lines 126-139, the except branch
PortionFails ==
    /\ InChunkLoop
    /\ event' = ChunkEv("chunk_fail", pow2(sleepcount), prior + 1, NoResult)
    /\ sleepcount' = sleepcount + 1
    /\ failed' = IF failed < MaxFailed THEN failed + 1 ELSE failed
    /\ UNCHANGED << config, pc, response, idx, lines, chunk, more_data, marker, fs, errors,
                    accepted, discards, removed >>

\* lines 126-141: the response lacks a key that line 141 indexes (KeyError)
PortionKeyError ==
    /\ InChunkLoop
    /\ \E r \in Results :
          /\ ~ HasKeys(r)
          /\ event' = ChunkEv("key_error", 0, prior, r)
    /\ sleepcount' = 0
    /\ pc' = "crashed"
    /\ UNCHANGED << config, response, idx, lines, chunk, more_data, marker, fs, errors,
                    accepted, discards, removed, failed >>

\* the shrink branch taken before the counter is reset (line 140 after the truncation test)
PortionShrink_noreset ==
    /\ pc = "chunk" /\ more_data /\ sleepcount < backoff
    /\ \E r \in Results :
          /\ HasKeys(r) /\ must_shrink(r)
          /\ event' = ChunkEv("shrink", 0, prior, r)
    /\ sleepcount' = sleepcount
    /\ lines' = shrunk
    /\ discards' = discards + 1
    /\ UNCHANGED << config, pc, response, idx, chunk, more_data, marker, fs, errors,
                    accepted, removed, failed >>

\* lines 126-149: truncated text above the floor, retry with fewer lines
PortionShrink ==
    /\ InChunkLoop
    /\ \E r \in Results :
          /\ HasKeys(r) /\ must_shrink(r)
          /\ event' = ChunkEv("shrink", 0, prior, r)
    /\ sleepcount' = 0
    /\ lines' = shrunk
    /\ discards' = discards + 1
    /\ UNCHANGED << config, pc, response, idx, chunk, more_data, marker, fs, errors,
                    accepted, removed, failed >>

\* lines 126-160: a text is written and the session advances
PortionWrite ==
    /\ InChunkLoop
    /\ \E r \in Results :
          /\ HasKeys(r) /\ has_data(r) /\ ~ must_shrink(r)
          /\ WithinChunks(r)
          /\ fs' = write(fs, destination, r.LogFileData.text)
          /\ accepted' = accepted \o r.LogFileData.text
          /\ Advance(r)
          /\ event' = ChunkEv("write", 0, prior, r)
    /\ sleepcount' = 0
    /\ UNCHANGED << config, pc, response, idx, lines, errors, discards, removed, failed >>

\* lines 126-160: LogFileData is None
PortionNoData ==
    /\ InChunkLoop
    /\ \E r \in Results :
          /\ HasKeys(r) /\ r.LogFileData.kind = "None"
          /\ WithinChunks(r)
          /\ Advance(r)
          /\ event' = ChunkEv("nodata", 0, prior, r)
    /\ sleepcount' = 0
    /\ errors' = Append(errors, [ kind |-> "nodata", file |-> idx ])
    /\ UNCHANGED << config, pc, response, idx, lines, fs, accepted, discards, removed, failed >>

\* lines 126-159: no LogFileData key, del result['LogFileData'] raises KeyError
PortionDelKeyError ==
    /\ InChunkLoop
    /\ \E r \in Results :
          /\ HasKeys(r) /\ r.LogFileData.kind = "missing"
          /\ Advance(r)
          /\ event' = ChunkEv("del_error", 0, prior, r)
    /\ sleepcount' = 0
    /\ errors' = Append(errors, [ kind |-> "nodata", file |-> idx ])
    /\ pc' = "crashed"
    /\ UNCHANGED << config, response, idx, lines, fs, accepted, discards, removed, failed >>

\* the end of a session that removes the file when the session is given up
EndSession_cleanup ==
    /\ pc = "chunk"
    /\ ~ (more_data /\ sleepcount < backoff)
    /\ \/ /\ sleepcount = backoff
          /\ errors' = Append(errors, [ kind |-> "download", file |-> idx ])
          /\ event' = ListEv("end_exhausted", 0, prior)
          /\ fs' = os_remove(fs, destination)
       \/ /\ sleepcount # backoff
          /\ errors' = errors
          /\ event' = Ev("end_ok")
          /\ fs' = fs
    /\ idx' = idx + 1
    /\ pc' = "file"
    /\ UNCHANGED << config, sleepcount, response, lines, chunk, more_data, marker,
                    accepted, discards, removed, failed >>

\* the end of a session that reports the error without testing the counter
EndSession_always ==
    /\ pc = "chunk"
    /\ ~ (more_data /\ sleepcount < backoff)
    /\ errors' = Append(errors, [ kind |-> "download", file |-> idx ])
    /\ event' = IF sleepcount = backoff THEN ListEv("end_exhausted", 0, prior) ELSE Ev("end_ok")
    /\ idx' = idx + 1
    /\ pc' = "file"
    /\ UNCHANGED << config, sleepcount, response, lines, chunk, more_data, marker, fs,
                    accepted, discards, removed, failed >>

\* lines 125, 162-163: the while condition is false, the file is closed
EndSession ==
    /\ pc = "chunk"
    /\ ~ (more_data /\ sleepcount < backoff)
    /\ \/ /\ sleepcount = backoff
          /\ errors' = Append(errors, [ kind |-> "download", file |-> idx ])
          /\ event' = ListEv("end_exhausted", 0, prior)
       \/ /\ sleepcount # backoff
          /\ errors' = errors
          /\ event' = Ev("end_ok")
    /\ idx' = idx + 1
    /\ pc' = "file"
    /\ UNCHANGED << config, sleepcount, response, lines, chunk, more_data, marker, fs,
                    accepted, discards, removed, failed >>

Next ==
    \/ DescribeFails
    \/ DescribeOk
    \/ DescribeGiveUp
    \/ SkipUnmatched
    \/ SkipExisting
    \/ BeginDownload
    \/ Redownload
    \/ ForDone
    \/ PortionFails
    \/ PortionKeyError
    \/ PortionShrink
    \/ PortionWrite
    \/ PortionNoData
    \/ PortionDelKeyError
    \/ EndSession

Spec == Init /\ [][Next]_vars

\* ================================================================== claims
\* the file whose iteration of the for loop has just ended
ended == basename(response.files[idx - 1].LogFileName)

ExhaustedEvents == { "list_exhausted", "end_exhausted" }
HandledEvents   == { "shrink", "write", "nodata", "del_error" }   \* the response reached line 143
CallEvents      == { "list_fail", "list_ok" } \cup RequestEvents

truncated(r) == r.LogFileData.kind = "text" /\ endswith(r.LogFileData.text, Sentinel)

\* C1: when a download session ends normally, the destination file holds exactly the
\* data of the responses that were kept (successful, not discarded by a shrink), in
\* request order, each once.
C1_FileIsKeptData ==
    event.kind = "end_ok" => (fs[ended].exists /\ fs[ended].data = accepted)

C1_Witness ==
    /\ event.kind = "end_ok"
    /\ discards > 0
    /\ chunk = 2
    /\ fs[ended].data = << Sentinel, "y", "x", Sentinel >>

\* C2: with maxAttempts = N, a call site is exhausted exactly after N consecutive
\* failures and never invokes the operation more than N times in a row without a
\* success; after fewer failures the operation is invoked again, and a success is
\* handled as a success: the listing becomes the loop's input, a chunk response is
\* consumed with the failure counter back at zero, and no exhaustion is reported.
C2_Counts ==
    /\ event.kind \in ExhaustedEvents => event.fails = backoff
    /\ event.kind \in FailEvents => event.fails <= backoff

C2_Step ==
    /\ (event.kind \in FailEvents /\ event.fails = backoff) => event'.kind \in ExhaustedEvents
    /\ (event.kind \in FailEvents /\ event.fails < backoff) =>
          (event'.kind \in CallEvents /\ event'.fails \in { event.fails, event.fails + 1 })
    /\ event'.kind = "list_ok" =>
          (pc' = "file" /\ response' = [ bound |-> TRUE, files |-> remote ] /\ errors' = errors)
    /\ event'.kind \in RequestEvents \ FailEvents =>
          (sleepcount' = 0 /\ event'.fails = prior
             /\ \A i \in 1..Len(errors') : errors'[i].kind # "download" \/ errors'[i].file # idx)

C2_Retry == [] C2_Counts /\ [][C2_Step]_vars

C2_Witness ==
    /\ event.kind = "write"
    /\ backoff >= 3
    /\ event.fails = backoff - 1

\* C3: the sleep after the k-th consecutive failure (k from 0) lasts 2^k time units,
\* at the listing call and at the chunk calls; for k = 0..4 that is 1, 2, 4, 8, 16.
Schedule == << 1, 2, 4, 8, 16 >>

C3_Sleep ==
    event.kind \in FailEvents =>
        /\ event.sleep = 2 ^ (event.fails - 1)
        /\ event.fails <= Len(Schedule) => event.sleep = Schedule[event.fails]

C3_Witness ==
    /\ event.kind = "chunk_fail"
    /\ event.fails = 5
    /\ event.sleep = 16
    /\ chunk > 0

\* C4: a handled response whose text ends with the sentinel, received while lines is
\* above 10% of args.lines, takes exactly 10 off lines, writes nothing, leaves marker
\* and more_data alone, and the next request repeats the marker with the reduced
\* line count.
C4_Step ==
    /\ (event'.kind \in HandledEvents /\ truncated(event'.result) /\ lines * 10 > args_lines) =>
          /\ event'.kind = "shrink"
          /\ lines' = lines - 10
          /\ fs' = fs
          /\ marker' = marker
          /\ more_data' = more_data
          /\ pc' = "chunk"
    /\ event.kind = "shrink" =>
          /\ event'.kind \in RequestEvents
          /\ event'.Marker = event.Marker
          /\ event'.NumberOfLines = event.NumberOfLines - 10

C4_Shrink == [][C4_Step]_vars

C4_Witness ==
    /\ pc = "chunk"
    /\ event.kind = "write"
    /\ args_lines = 100
    /\ event.NumberOfLines = 90
    /\ discards = 1
    /\ chunk = 2
    /\ fs[destination].data = << Sentinel, "y", Sentinel, "y" >>

\* C5: during a download session lines is never below 10% of args.lines.
C5_Floor ==
    pc = "chunk" => lines * 10 >= args_lines

\* C6: a session discards only finitely many truncated responses (each discard was
\* made above the floor, 10 lines apart), and at or below the floor a truncated text
\* is written verbatim and more_data and marker are taken from that response.
C6_Bounded ==
    /\ lines = args_lines - 10 * discards
    /\ discards > 0 => 100 * (discards - 1) < 9 * args_lines

C6_Step ==
    (event'.kind \in HandledEvents /\ truncated(event'.result) /\ ~ (lines * 10 > args_lines)) =>
        /\ event'.kind = "write"
        /\ fs'[destination].data = fs[destination].data \o event'.result.LogFileData.text
        /\ more_data' = (event'.result.AdditionalDataPending = "True")
        /\ marker' = event'.result.Marker
        /\ chunk' = chunk + 1
        /\ lines' = lines

C6_NoEndlessRetry == [](pc = "chunk" => C6_Bounded) /\ [][C6_Step]_vars

C6_Witness ==
    /\ event.kind = "write"
    /\ truncated(event.result)
    /\ discards = 2
    /\ marker = event.result.Marker
    /\ marker # event.Marker
    /\ more_data

\* the descriptor the for loop is at, read from the listing
cur      == response.files[idx]
cur_base == cur.LogFileName[2]
AtFile   == pc = "file" /\ idx <= Len(response.files)
Passes   == logfile_match = NoPattern \/ logfile_match \in { cur.LogFileName[1], cur.LogFileName[2] }
SizeEq   == fs[cur_base].exists /\ Len(fs[cur_base].data) = cur.Size

\* C7: a listed file that passes the filter and whose local file has the listed size
\* is skipped: the local files are left as they are, nothing is removed, and no
\* chunk request is sent for it (requests are only sent inside a session of the
\* descriptor the loop is at, and the loop never goes back).
C7_Step ==
    /\ (AtFile /\ Passes /\ SizeEq) =>
          /\ event'.kind = "size_skip"
          /\ fs' = fs
          /\ removed' = removed
          /\ pc' = "file"
          /\ idx' = idx + 1
    /\ event'.kind \in RequestEvents => (pc = "chunk" /\ idx' = idx)
    /\ idx' >= idx

C7_SkipSameSize == [][C7_Step]_vars

C7_Witness ==
    /\ event.kind = "size_skip"
    /\ logfile_match # NoPattern
    /\ fs[ended] = File(<< "old" >>)
    /\ idx = 2

\* C8: a listed file that passes the filter and whose local file has another size has
\* that file removed before any request; the download starts over: the first request
\* carries marker "0" and the new file never holds a byte of the old one.
C8_Step ==
    /\ (AtFile /\ Passes /\ fs[cur_base].exists /\ Len(fs[cur_base].data) # cur.Size) =>
          /\ event'.kind = "redownload"
          /\ removed' = removed \cup { idx }
          /\ fs' = [ fs EXCEPT ![cur_base] = File(<<>>) ]
          /\ marker' = "0"
          /\ pc' = "chunk"
          /\ idx' = idx
    /\ event.kind = "redownload" => (event'.kind \in RequestEvents /\ event'.Marker = "0")

C8_NoOldBytes ==
    pc = "chunk" => \A i \in 1..Len(fs[cur_base].data) : fs[cur_base].data[i] # "old"

C8_Redownload == [] C8_NoOldBytes /\ [][C8_Step]_vars

C8_Witness ==
    /\ event.kind = "write"
    /\ idx \in removed
    /\ chunk = 1
    /\ event.Marker = "0"
    /\ fs[cur_base].data = << Sentinel, "y" >>

\* C9: when the listing call is exhausted the run reports the error and ends; no
\* chunk request was sent and no local file was created, truncated or removed.
C9_Exhausted ==
    event.kind = "list_exhausted" =>
        /\ pc = "done"
        /\ errors = << [ kind |-> "describe", file |-> 0 ] >>
        /\ ~ response.bound
        /\ removed = {}
        /\ \A b \in BaseNames : fs[b] \in OldFiles \cup LeftFiles

C9_Step ==
    /\ pc = "list" => (fs' = fs /\ event'.kind \notin RequestEvents)
    /\ pc = "done" => FALSE

C9_ListingFatal == [] C9_Exhausted /\ [][C9_Step]_vars

C9_Witness ==
    /\ event.kind = "list_exhausted"
    /\ backoff = 3
    /\ event.fails = 3
    /\ fs["a"].exists

\* C10: a chunk loop that ends with the failure counter at maxAttempts reports an
\* error for that file and the for loop goes on: every descriptor the loop reaches is
\* filtered, skip-checked and downloaded from a fresh session state, whatever
\* happened to the files before it.
C10_Step ==
    /\ (pc = "chunk" /\ more_data /\ event.kind = "chunk_fail" /\ event.fails = backoff) =>
          event'.kind = "end_exhausted"
    /\ event'.kind = "end_exhausted" =>
          /\ errors' = Append(errors, [ kind |-> "download", file |-> idx ])
          /\ fs' = fs
          /\ pc' = "file"
          /\ idx' = idx + 1
    /\ (AtFile /\ ~ Passes) =>
          (event'.kind = "filter_skip" /\ fs' = fs /\ pc' = "file" /\ idx' = idx + 1)
    /\ (AtFile /\ Passes /\ SizeEq) =>
          (event'.kind = "size_skip" /\ fs' = fs /\ pc' = "file" /\ idx' = idx + 1)
    /\ (AtFile /\ Passes /\ ~ SizeEq) =>
          /\ pc' = "chunk"
          /\ idx' = idx
          /\ marker' = "0"
          /\ lines' = args_lines
          /\ sleepcount' = 0
          /\ more_data'
          /\ chunk' = 0
          /\ fs' = [ fs EXCEPT ![cur_base] = File(<<>>) ]
          /\ errors' = errors
    /\ (pc = "file" /\ idx > Len(response.files)) => pc' = "done"

C10_RunContinues == [][C10_Step]_vars

C10_Witness ==
    /\ pc = "chunk"
    /\ idx = 2
    /\ event.kind = "write"
    /\ event.Marker = "0"
    /\ errors = << [ kind |-> "download", file |-> 1 ] >>

\* C11: the failure counter holds the failures since the last successful response:
\* a failure adds one, every response (a discarded truncated one too) sets it to
\* zero, and a file is given up only after args.backoff failures in a row, so a
\* session may see more than args.backoff failures and still go on.
C11_Counter ==
    pc = "chunk" => sleepcount = prior

C11_Step ==
    /\ event'.kind = "chunk_fail" => sleepcount' = sleepcount + 1
    /\ event'.kind \in RequestEvents \ FailEvents => sleepcount' = 0
    /\ event'.kind = "end_exhausted" =>
          (event.kind = "chunk_fail" /\ event.fails = backoff /\ backoff >= 1)

C11_Consecutive == [] C11_Counter /\ [][C11_Step]_vars

C11_Witness ==
    /\ pc = "chunk"
    /\ event.kind = "write"
    /\ backoff = 2
    /\ failed = 3
    /\ discards >= 1
    /\ sleepcount = 0
    /\ errors = <<>>

\* C12: a handled response without a LogFileData key is logged as an error, nothing is
\* written, the failure counter stays at zero, more_data and marker are taken from
\* the response and the loop goes on.
C12_Step ==
    (event'.kind \in HandledEvents /\ event'.result.LogFileData.kind = "missing") =>
        /\ errors' = Append(errors, [ kind |-> "nodata", file |-> idx ])
        /\ fs' = fs
        /\ sleepcount' = 0
        /\ more_data' = (event'.result.AdditionalDataPending = "True")
        /\ marker' = event'.result.Marker
        /\ pc' = "chunk"

C12_NoDataProceeds == [][C12_Step]_vars

\* C13: a returned response without the AdditionalDataPending key counts as 'no more
\* data': its text, unless discarded as truncated, is written, more_data becomes
\* false and the session goes on to its normal end.
C13_Step ==
    (event'.kind \in RequestEvents \ FailEvents /\ event'.result.AdditionalDataPending = NoField) =>
        /\ pc' = "chunk"
        /\ ~ more_data'
        /\ errors' = errors \/ event'.result.LogFileData.kind # "text"
        /\ (event'.result.LogFileData.kind = "text" /\ ~ truncated(event'.result)) =>
              fs'[cur_base].data = fs[cur_base].data \o event'.result.LogFileData.text

C13_MissingFlagIsFalse == [][C13_Step]_vars

\* C14: every chunk request carries "0" until the service has returned a marker in the
\* session, and afterwards the marker most recently returned.
\* As claimed: the marker of every returned response counts, also that of a
\* truncated response discarded by a shrink.
C14_OriginalStep ==
    /\ (event.kind \in { "open", "redownload" } /\ event'.kind \in RequestEvents) =>
          event'.Marker = "0"
    /\ (event.kind = "chunk_fail" /\ event'.kind \in RequestEvents) =>
          event'.Marker = event.Marker
    /\ (event.kind \in { "shrink", "write", "nodata" } /\ event'.kind \in RequestEvents) =>
          event'.Marker = event.result.Marker

C14_Original == [][C14_OriginalStep]_vars

\* As the code does it: the marker of a discarded truncated response is dropped, the
\* request after it repeats the marker of the request before it.
C14_AmendedStep ==
    /\ (event.kind \in { "open", "redownload" } /\ event'.kind \in RequestEvents) =>
          event'.Marker = "0"
    /\ (event.kind \in { "chunk_fail", "shrink" } /\ event'.kind \in RequestEvents) =>
          event'.Marker = event.Marker
    /\ (event.kind \in { "write", "nodata" } /\ event'.kind \in RequestEvents) =>
          event'.Marker = event.result.Marker
    /\ event'.kind \in RequestEvents => event'.Marker \in { "0" } \cup Markers

C14_MarkerForwarded == [][C14_AmendedStep]_vars

C14_Witness ==
    /\ pc = "chunk"
    /\ event.kind = "shrink"
    /\ chunk = 1
    /\ marker = "1"
    /\ event.Marker = "1"
    /\ event.result.Marker = "2"

\* C15: a failed chunk call adds one to the failure counter and sleeps; marker, lines,
\* more_data, the chunk counter and the local files stay as they were, and the next
\* request, if there is one, repeats the marker and the line count.
C15_Step ==
    /\ event'.kind = "chunk_fail" =>
          /\ sleepcount' = sleepcount + 1
          /\ event'.sleep > 0
          /\ UNCHANGED << marker, lines, more_data, chunk, fs, errors, idx, pc, response >>
    /\ (event.kind = "chunk_fail" /\ event'.kind \in RequestEvents) =>
          /\ event'.Marker = event.Marker
          /\ event'.NumberOfLines = event.NumberOfLines

C15_FailureFrame == [][C15_Step]_vars

C15_Witness ==
    /\ event.kind = "chunk_fail"
    /\ event.fails = 2
    /\ chunk = 1
    /\ discards = 1
    /\ marker = "2"
    /\ fs[cur_base].data # <<>>

\* C16: the 'too many errors' error of a file is logged exactly when its chunk loop
\* ends with the failure counter at args.backoff; a loop that ends because more_data
\* became false logs none. Sessions exist only for args.backoff >= 1, where the two
\* ways to end exclude each other.
TooMany(i) == [ kind |-> "download", file |-> i ]

C16_Ends ==
    pc = "chunk" => (backoff >= 1 /\ (~ more_data => sleepcount = 0))

C16_Step ==
    /\ (pc = "chunk" /\ pc' = "file") =>
          /\ errors' = IF sleepcount = backoff THEN Append(errors, TooMany(idx)) ELSE errors
          /\ ~ more_data => errors' = errors
    /\ (Len(errors') > Len(errors) /\ errors'[Len(errors')].kind = "download") =>
          (pc = "chunk" /\ pc' = "file" /\ sleepcount = backoff /\ more_data)

C16_ErrorIffExhausted == [] C16_Ends /\ [][C16_Step]_vars

C16_Witness ==
    /\ event.kind = "end_ok"
    /\ backoff = 2
    /\ failed = 2
    /\ chunk = 2
    /\ errors = <<>>

\* C17: sessions do not inherit from one another: every session starts with marker
\* "0", lines = args.lines and a failure counter of zero, and its first request
\* carries these whatever shrinks, failures or exhaustion came before; within a
\* session lines never grows.
C17_Fresh ==
    event.kind \in { "open", "redownload" } =>
        (pc = "chunk" /\ marker = "0" /\ lines = args_lines /\ sleepcount = 0 /\ chunk = 0 /\ more_data)

C17_Step ==
    /\ event.kind \in { "open", "redownload" } =>
          /\ event'.kind \in RequestEvents
          /\ event'.Marker = "0"
          /\ event'.NumberOfLines = args_lines
          /\ event'.fails = IF event'.kind = "chunk_fail" THEN 1 ELSE 0
          /\ event'.sleep = IF event'.kind = "chunk_fail" THEN 1 ELSE 0
    /\ (pc = "chunk" /\ pc' = "chunk") => lines' <= lines

C17_Independent == [] C17_Fresh /\ [][C17_Step]_vars

\* the first request of the second file, after a first file that shrank (its
\* truncated text was written below the floor) and was then given up
C17_Witness ==
    /\ idx = 2
    /\ event.kind = "chunk_fail"
    /\ event.fails = 1
    /\ event.Marker = "0"
    /\ event.NumberOfLines = args_lines
    /\ chunk = 0
    /\ errors = << TooMany(1) >>
    /\ fs[response.files[1].LogFileName[2]].data = << "x", Sentinel >>

\* C18: a session that is given up leaves its destination file in place, holding
\* exactly what was appended before; nothing removes or changes it afterwards (only
\* the destination of the descriptor the loop is at is ever touched), and a run that
\* finds a local file of the listed size skips it whatever it holds, so a later run
\* skips the partial file when the sizes agree.
C18_Left ==
    event.kind = "end_exhausted" =>
        (pc = "file" /\ fs[ended].exists /\ fs[ended].data = accepted /\ Len(accepted) <= 2 * chunk)

C18_Step ==
    /\ event'.kind = "end_exhausted" => (fs' = fs /\ removed' = removed)
    /\ \A b \in BaseNames : fs'[b] # fs[b] => (pc \in { "file", "chunk" } /\ idx' = idx /\ b = cur_base)
    /\ (AtFile /\ Passes /\ fs[cur_base].exists /\ Len(fs[cur_base].data) = cur.Size) =>
          (event'.kind = "size_skip" /\ fs' = fs /\ idx' = idx + 1)

C18_PartialFileStays == [] C18_Left /\ [][C18_Step]_vars

C18_Witness ==
    /\ event.kind = "end_exhausted"
    /\ chunk = 1
    /\ fs[ended] \in LeftFiles
    /\ fs[ended].data # <<>>
    /\ response.files[idx - 1].Size = Len(fs[ended].data)

\* the later run: the partial file of the listed size is skipped
C18_LaterRun ==
    /\ event.kind = "size_skip"
    /\ fs[ended] = File(<< Sentinel, "y" >>)
    /\ response.files[idx - 1].Size = 2

\* C19: every backoff sleep is followed by another call of the same operation.
\* As claimed: a failure (each one sleeps) is never the last call of its call site.
C19_OriginalStep ==
    /\ (event.kind = "list_fail" /\ event.sleep > 0) => event'.kind \in { "list_fail", "list_ok" }
    /\ (event.kind = "chunk_fail" /\ event.sleep > 0) => event'.kind \in RequestEvents

C19_Original == [][C19_OriginalStep]_vars

\* As the code does it: every failure sleeps, the one that brings the counter to
\* args.backoff too; a sleep is followed by another call of the same operation
\* unless it was that last one, which is followed by giving up.
C19_EveryFailureSleeps ==
    event.kind \in FailEvents =>
        (event.fails >= 1 /\ event.fails <= backoff /\ event.sleep = 2 ^ (event.fails - 1))

C19_AmendedStep ==
    /\ (event.kind = "list_fail" /\ event.fails < backoff) =>
          event'.kind \in { "list_fail", "list_ok" }
    /\ (event.kind = "chunk_fail" /\ event.fails < backoff) =>
          (event'.kind \in RequestEvents /\ idx' = idx)
    /\ (event.kind = "list_fail" /\ event.fails = backoff) =>
          (event'.kind = "list_exhausted" /\ event'.sleep = 0)
    /\ (event.kind = "chunk_fail" /\ event.fails = backoff) =>
          (event'.kind = "end_exhausted" /\ event'.sleep = 0)

C19_SleepThenRetryOrGiveUp == [] C19_EveryFailureSleeps /\ [][C19_AmendedStep]_vars

C19_Witness ==
    /\ event.kind = "chunk_fail"
    /\ backoff = 3
    /\ event.fails = 3
    /\ event.sleep = 4
    /\ sleepcount = 3

\* C20: with a positive args.lines every chunk request asks for at least one line.
C20_PositiveLines ==
    (event.kind \in RequestEvents /\ args_lines >= 1) => event.NumberOfLines >= 1

====
